---- MODULE Spec2Model ----
(***************************************************************************)
(* Model of scripts/download-heigit-surface.py: the shard range resolver   *)
(* (parse_args), the extractor (discover_gpkg_table, extract_surface_data),*)
(* the upsert (_insert_batch), the spatial index builder                   *)
(* (build_rtree_index) and the resumable driver loop (main).               *)
(*                                                                         *)
(* Specifications: SpecMerge (batches through _insert_batch), SpecArgs     *)
(* (parse_args), SpecExtract (extract_surface_data statement by            *)
(* statement), Spec (main, run any number of times), SpecTwice (the same   *)
(* invocation repeated), SpecCrash (main with a kill during an             *)
(* extraction), SpecRetry (main under fair re-invocation).                 *)
(*                                                                         *)
(* SQL NULL / Python None is the empty sequence <<>>, a present value v is *)
(* the one-element sequence <<v>>, so that "NULL compared with anything is *)
(* not true" and "MAX with a NULL argument is NULL" are modelled as SQLite *)
(* evaluates them and never as an integer comparison with a sentinel.      *)
(***************************************************************************)
EXTENDS Integers, Sequences, FiniteSets, TLC

VARIABLES
  sources,          \* upstream: shard number -> GeoPackage file served for it
  db,               \* out_conn's view of the output database (uncommitted included)
  disk,             \* the committed content of heigit-surface.sqlite
  tmp,              \* shard numbers whose temporary .gpkg file exists
  pc,               \* main's position: "idle" (no process), "loop", "done"
  argv,             \* the shard selectors of the current or last invocation
  file_range,       \* args.file_range, as the sequence the for loop walks
  idx,              \* number of loop iterations done in this run
  processed,        \* main's set `processed`, read from the ledger at start
  total_downloaded, \* main's counter of sources completed in this run
  exitCode,         \* exit status of the last invocation (<<>> before any)
  outcomes,         \* history: what each loop iteration of this run ended as
  startDisk,        \* history: the committed database when this run started
  log,              \* upsert driver only: the rows executed so far, in order
  twice,            \* repeated-run driver only: its plan and what each run left
  killed,           \* kill driver only: its plan and the shard whose extraction was cut
  extracted         \* extractor driver only: what the last extraction did

vars == <<sources, db, disk, tmp, pc, argv, file_range, idx, processed,
          total_downloaded, exitCode, outcomes, startDisk, log, twice,
          killed, extracted>>

---------------------------------------------------------------------------
(* Nullable values *)

Null == <<>>
Some(v) == <<v>>
IsNull(x) == x = Null
Val(x) == x[1]

\* SQL `a > b`: true only when both are present and a is greater.
SqlGreater(a, b) == ~IsNull(a) /\ ~IsNull(b) /\ Val(a) > Val(b)

\* SQLite's scalar MAX(a, b): NULL if any argument is NULL.
SqlMax(a, b) ==
  IF IsNull(a) \/ IsNull(b) THEN Null
  ELSE IF Val(a) >= Val(b) THEN a ELSE b

---------------------------------------------------------------------------
(* Bounds and program constants *)

NUM_FILES == 40
BATCH_SIZE == 2       \* stands for the 50_000 of fetchmany and of the flush test
MaxRows == 3          \* rows of a served feature table
MaxLog == 3           \* rows executed by the upsert driver
MaxRuns == 2          \* invocations of the repeated-run driver

---------------------------------------------------------------------------
(* The output database *)

\* A row of `surface` / a parameter tuple of the INSERT.
SurfaceRow(id, label, n, lat, lng) ==
  [osm_id |-> id, pred_label |-> label, n_predictions |-> n,
   centroid_lat |-> lat, centroid_lng |-> lng]

\* The database right after main's CREATE TABLE IF NOT EXISTS on a new file.
\* rtree = Null: the table surface_rtree does not exist.
EmptyDb == [exists |-> TRUE, surface |-> {}, metadata |-> {}, rtree |-> Null]

\* No output file yet.
NoDb == [exists |-> FALSE, surface |-> {}, metadata |-> {}, rtree |-> Null]

Conflicting(surface, t) == {s \in surface : s.osm_id = t.osm_id}

\* Mutation of DoUpdate: the incoming row always replaces the stored one.
DoUpdate_LastWins(s, excluded) == excluded

\* ON CONFLICT(osm_id) DO UPDATE SET ...: the stored row s after the update.
DoUpdate(s, excluded) ==
  [osm_id |-> s.osm_id,
   pred_label |-> IF SqlGreater(excluded.n_predictions, s.n_predictions)
                  THEN excluded.pred_label ELSE s.pred_label,
   n_predictions |-> SqlMax(s.n_predictions, excluded.n_predictions),
   centroid_lat |-> IF SqlGreater(excluded.n_predictions, s.n_predictions)
                    THEN excluded.centroid_lat ELSE s.centroid_lat,
   centroid_lng |-> IF SqlGreater(excluded.n_predictions, s.n_predictions)
                    THEN excluded.centroid_lng ELSE s.centroid_lng]

\* pred_label REAL NOT NULL: the statement raises IntegrityError and has no
\* effect; NOT NULL is checked before the conflict on osm_id is looked at.
Raises(t) == IsNull(t.pred_label)

\* One execution of the INSERT ... ON CONFLICT statement for tuple t.
UpsertRow(surface, t) ==
  IF Conflicting(surface, t) = {}
  THEN surface \cup {t}
  ELSE (surface \ Conflicting(surface, t))
         \cup {DoUpdate(s, t) : s \in Conflicting(surface, t)}

\* executemany: the statement runs for each tuple in order, inside the
\* transaction the first one opens; the first tuple that raises stops it and
\* leaves what ran before it in the open transaction.
RECURSIVE ExecuteMany(_, _, _)
ExecuteMany(surface, batch, k) ==
  IF k > Len(batch) THEN [surface |-> surface, raised |-> FALSE, done |-> Len(batch)]
  ELSE IF Raises(batch[k]) THEN [surface |-> surface, raised |-> TRUE, done |-> k - 1]
  ELSE ExecuteMany(UpsertRow(surface, batch[k]), batch, k + 1)

\* _insert_batch(out_conn, batch) on connection view d with committed state c:
\* executemany, then commit unless executemany raised.
insert_batch(d, c, batch) ==
  LET r == ExecuteMany(d.surface, batch, 1)
      d2 == [d EXCEPT !.surface = r.surface]
  IN [db |-> d2,
      disk |-> IF r.raised THEN c ELSE d2,
      raised |-> r.raised,
      done |-> r.done]

---------------------------------------------------------------------------
(* Upsert driver: arbitrary batches through _insert_batch *)

Labels == {0, 1}
Counts == {Null, Some(1), Some(2)}

\* Parameter tuples: label 0 comes with centroid (6,1), label 1 with (0,4);
\* a tuple with a NULL label is the one the NOT NULL constraint rejects.
Tuples ==
  {SurfaceRow(id, Some(l), n, Some(6 * (1 - l)), Some(1 + 3 * l)) :
      id \in {1, 2}, l \in Labels, n \in Counts}
  \cup {SurfaceRow(1, Null, Some(2), Some(6), Some(1))}

Batches == {<<t>> : t \in Tuples} \cup {<<t, u>> : t \in Tuples, u \in Tuples}

InitCommon ==
  /\ tmp = {}
  /\ pc = "idle"
  /\ argv = <<>>
  /\ file_range = <<>>
  /\ idx = 0
  /\ processed = {}
  /\ total_downloaded = 0
  /\ exitCode = Null
  /\ outcomes = <<>>
  /\ startDisk = NoDb
  /\ log = <<>>

InitMerge ==
  /\ InitCommon
  /\ twice = Null
  /\ killed = Null
  /\ extracted = Null
  /\ sources = <<>>
  /\ db = EmptyDb
  /\ disk = EmptyDb

InsertBatch(batch) ==
  /\ Len(log) + Len(batch) <= MaxLog
  /\ LET r == insert_batch(db, disk, batch)
     IN /\ db' = r.db
        /\ disk' = r.disk
        /\ log' = log \o SubSeq(batch, 1, r.done)
  /\ UNCHANGED <<sources, tmp, pc, argv, file_range, idx, processed,
                 total_downloaded, exitCode, outcomes, startDisk, twice,
                 killed, extracted>>

NextMerge == \E batch \in Batches : InsertBatch(batch)

SpecMerge == InitMerge /\ [][NextMerge]_vars

---------------------------------------------------------------------------
(* Properties of the upsert, stated for SpecMerge *)

StoredFor(id) == {s \in db.surface : s.osm_id = id}

\* Exactly two rows were executed, for one osm_id, with confidence proxies
\* that are both present and different.
TwoRanked ==
  /\ Len(log) = 2
  /\ log[1].osm_id = log[2].osm_id
  /\ \/ SqlGreater(log[1].n_predictions, log[2].n_predictions)
     \/ SqlGreater(log[2].n_predictions, log[1].n_predictions)

Better(a, b) == IF SqlGreater(a.n_predictions, b.n_predictions) THEN a ELSE b

\* C1: two rows with the same osm_id and confidence proxies c1 < c2, upserted
\* in either order and in one batch or two, leave exactly one stored record
\* for that osm_id, equal in pred_label, n_predictions, centroid_lat and
\* centroid_lng to the c2 row.
C1_MergeCommutes ==
  TwoRanked => StoredFor(log[1].osm_id) = {Better(log[1], log[2])}

\* The better row came first and a different, worse row was upserted over it.
C1_Witness ==
  /\ TwoRanked
  /\ SqlGreater(log[1].n_predictions, log[2].n_predictions)
  /\ log[1].pred_label # log[2].pred_label
  /\ StoredFor(log[1].osm_id) = {log[1]}

\* C2: a step that executes one row whose confidence proxy is not strictly
\* greater than the stored one's for the same osm_id (lower, equal, or not
\* comparable because one of them is NULL) leaves the stored record as it was.
C2_UpsertFrame ==
  [][\A s \in db.surface :
       (/\ Len(log') = Len(log) + 1
        /\ log'[Len(log')].osm_id = s.osm_id
        /\ ~SqlGreater(log'[Len(log')].n_predictions, s.n_predictions))
       => s \in db'.surface]_vars

\* A row of the log whose confidence proxy no other row for its osm_id beats
\* (a row with a NULL proxy is beaten by none: NULL is not comparable).
IsMaxOfLog(k) ==
  \A j \in 1..Len(log) :
    log[j].osm_id = log[k].osm_id
      => ~SqlGreater(log[j].n_predictions, log[k].n_predictions)

\* C3: at most one record per osm_id, and every stored record equals, in all
\* four fields together, one of the rows merged for its osm_id whose
\* confidence proxy is the maximum among the rows merged for that osm_id.
C3_RecordSetInvariant ==
  /\ \A s \in db.surface : StoredFor(s.osm_id) = {s}
  /\ \A s \in db.surface : \E k \in 1..Len(log) : log[k] = s /\ IsMaxOfLog(k)

---------------------------------------------------------------------------
(* parse_args: the shard range resolver *)

\* Python's range(a, b) as the sequence the for loop walks.
Range(a, b) == [k \in 1..(IF b > a THEN b - a ELSE 0) |-> a + k - 1]

InBounds(n) == 0 <= n /\ n < NUM_FILES

\* Mutation of parse_args: the pair's upper end is left out of the range.
parse_args_Exclusive(files) ==
  IF Len(files) = 0 THEN [error |-> FALSE, file_range |-> Range(0, NUM_FILES)]
  ELSE IF Len(files) = 1 THEN
    IF ~InBounds(files[1]) THEN [error |-> TRUE, file_range |-> <<>>]
    ELSE [error |-> FALSE, file_range |-> Range(files[1], files[1] + 1)]
  ELSE IF Len(files) = 2 THEN
    IF ~(InBounds(files[1]) /\ InBounds(files[2]))
    THEN [error |-> TRUE, file_range |-> <<>>]
    ELSE [error |-> FALSE, file_range |-> Range(files[1], files[2])]
  ELSE [error |-> TRUE, file_range |-> <<>>]

\* parse_args on the integer selectors `files`; error = parser.error, which
\* exits with status 2.
parse_args(files) ==
  IF Len(files) = 0 THEN [error |-> FALSE, file_range |-> Range(0, NUM_FILES)]
  ELSE IF Len(files) = 1 THEN
    IF ~InBounds(files[1]) THEN [error |-> TRUE, file_range |-> <<>>]
    ELSE [error |-> FALSE, file_range |-> Range(files[1], files[1] + 1)]
  ELSE IF Len(files) = 2 THEN
    IF ~(InBounds(files[1]) /\ InBounds(files[2]))
    THEN [error |-> TRUE, file_range |-> <<>>]
    ELSE [error |-> FALSE, file_range |-> Range(files[1], files[2] + 1)]
  ELSE [error |-> TRUE, file_range |-> <<>>]

---------------------------------------------------------------------------
(* The served GeoPackage files *)

\* A row of the feature table with its entry in the file's rtree (box = Null:
\* the row has no rtree entry, so the JOIN drops it).
FeatureRow(id, class, label, n, box) ==
  [osm_id |-> id, pred_class |-> class, pred_label |-> label,
   n_of_predictions_used |-> n, box |-> box]

Box(minx, maxx, miny, maxy) ==
  Some([minx |-> minx, maxx |-> maxx, miny |-> miny, maxy |-> maxy])

\* Rows a feature table is made of. Coordinates are in a unit that makes the
\* box sums even, so that the midpoint's division by 2.0 is exact in integers.
RowLow == FeatureRow(1, Some("paved"), Some(0), Some(1), Box(0, 2, 4, 8))
RowHigh == FeatureRow(1, Some("unpaved"), Some(1), Some(2), Box(2, 6, 0, 0))
\* classified, but pred_label is NULL: the INSERT raises IntegrityError
RowBad == FeatureRow(2, Some("paved"), Null, Some(1), Box(0, 2, 4, 8))
\* classified, n_of_predictions_used is NULL
RowNoCount == FeatureRow(1, Some("unpaved"), Some(1), Null, Box(2, 6, 0, 0))
\* no ML prediction
RowUnclassified == FeatureRow(2, Null, Null, Null, Box(0, 2, 4, 8))
\* classified, but without an entry in the file's rtree
RowNoBox == FeatureRow(2, Some("paved"), Some(0), Some(1), Null)

BatchRows == {RowLow, RowBad}
CoreRows == {RowLow, RowHigh, RowBad}
FeatureRows == {RowLow, RowHigh, RowBad, RowNoCount, RowUnclassified, RowNoBox}

SeqsUpTo(S, n) == UNION {[1..k -> S] : k \in 0..n}

\* A GeoPackage: whether gpkg_contents lists a feature table, whether
\* gpkg_geometry_columns has a row for it, and the feature table's rows.
Gpkg(features, geometry, rows) ==
  [has_features |-> features, has_geometry |-> geometry, rows |-> rows]

\* The files a shard may serve: every table of up to MaxRows rows over
\* BatchRows, up to MaxRows - 1 rows over CoreRows, up to MaxRows - 2 rows
\* over all FeatureRows, and the two malformed files.
Files ==
  {Gpkg(TRUE, TRUE, rows) :
     rows \in SeqsUpTo(BatchRows, MaxRows) \cup SeqsUpTo(CoreRows, MaxRows - 1)
               \cup SeqsUpTo(FeatureRows, MaxRows - 2)}
  \cup {Gpkg(FALSE, FALSE, <<>>), Gpkg(TRUE, FALSE, <<>>)}

\* The shards the pipeline runs select among.
Shards == {0, 1}

filename(i) == <<"heigit_usa_roadsurface_lines", i>>
LedgerEntry(i) == [key |-> <<"processed_file", i>>, value |-> filename(i)]

---------------------------------------------------------------------------
(* discover_gpkg_table and extract_surface_data *)

\* TRUE when discover_gpkg_table raises RuntimeError.
discover_raises(file) == ~file.has_features \/ ~file.has_geometry

\* The SELECT's projection of one joined row.
Project(f) ==
  SurfaceRow(f.osm_id, f.pred_label, f.n_of_predictions_used,
             Some((Val(f.box).miny + Val(f.box).maxy) \div 2),
             Some((Val(f.box).minx + Val(f.box).maxx) \div 2))

\* WHERE f.pred_class IS NOT NULL, on the JOIN with the rtree.
Selects(f) == ~IsNull(f.pred_class) /\ ~IsNull(f.box)

RECURSIVE Cursor(_)
Cursor(rows) ==
  IF rows = <<>> THEN <<>>
  ELSE (IF Selects(Head(rows)) THEN <<Project(Head(rows))>> ELSE <<>>)
         \o Cursor(Tail(rows))

Min(a, b) == IF a <= b THEN a ELSE b

\* The while loop of extract_surface_data, from cursor position pos with the
\* buffer `batch`; d is the connection's view, c the committed state, passed
\* the batches handed to _insert_batch so far.
RECURSIVE ExtractLoop(_, _, _, _, _, _, _)
ExtractLoop(cur, pos, batch, ml_count, d, c, passed) ==
  LET rows == SubSeq(cur, pos + 1, Min(pos + BATCH_SIZE, Len(cur)))
  IN IF rows = <<>>
     THEN IF batch # <<>>
          THEN LET r == insert_batch(d, c, batch)
               IN [db |-> r.db, disk |-> r.disk, raised |-> r.raised,
                   ml_count |-> ml_count, passed |-> Append(passed, batch)]
          ELSE [db |-> d, disk |-> c, raised |-> FALSE,
                ml_count |-> ml_count, passed |-> passed]
     ELSE LET batch2 == batch \o rows
              ml2 == ml_count + Len(rows)
          IN IF Len(batch2) >= BATCH_SIZE
             THEN LET r == insert_batch(d, c, batch2)
                  IN IF r.raised
                     THEN [db |-> r.db, disk |-> r.disk, raised |-> TRUE,
                           ml_count |-> ml2, passed |-> Append(passed, batch2)]
                     ELSE ExtractLoop(cur, pos + Len(rows), <<>>, ml2,
                                      r.db, r.disk, Append(passed, batch2))
             ELSE ExtractLoop(cur, pos + Len(rows), batch2, ml2, d, c, passed)

\* extract_surface_data(gpkg_path, out_conn): the databases after it, whether
\* it raised, and the (total, ml_count) it returns when it did not.
extract_surface_data(file, d, c) ==
  IF discover_raises(file)
  THEN [db |-> d, disk |-> c, raised |-> TRUE, total |-> 0, ml_count |-> 0,
        passed |-> <<>>]
  ELSE LET r == ExtractLoop(Cursor(file.rows), 0, <<>>, 0, d, c, <<>>)
       IN [db |-> r.db, disk |-> r.disk, raised |-> r.raised,
           total |-> Len(file.rows), ml_count |-> r.ml_count,
           passed |-> r.passed]

---------------------------------------------------------------------------
(* build_rtree_index *)

\* An rtree virtual table stores its coordinates as 32-bit floats: on INSERT
\* a lower bound is rounded down and an upper bound up to the nearest one.
\* Coordinates are counted in half steps of the 32-bit grid: the boxes of a
\* GeoPackage's rtree lie on the grid (even numbers), their midpoints,
\* computed in 64-bit arithmetic, need not.
F32_STEP == 2
F32Down(x) == x - (x % F32_STEP)
F32Up(x) == IF x % F32_STEP = 0 THEN x ELSE x - (x % F32_STEP) + F32_STEP

\* DROP, CREATE and refill surface_rtree from the connection's view, commit.
\* The id is surface's rowid, which is osm_id (INTEGER PRIMARY KEY).
build_rtree_index(d) ==
  [d EXCEPT !.rtree =
     Some({[id |-> s.osm_id,
            min_lng |-> F32Down(Val(s.centroid_lng)),
            max_lng |-> F32Up(Val(s.centroid_lng)),
            min_lat |-> F32Down(Val(s.centroid_lat)),
            max_lat |-> F32Up(Val(s.centroid_lat))] :
           s \in {x \in d.surface :
                    ~IsNull(x.centroid_lat) /\ ~IsNull(x.centroid_lng)}})]

---------------------------------------------------------------------------
(* main *)

\* What curl can do: succeed, fail before writing anything to dest, or fail
\* after writing part of the file to dest.
DownloadOutcomes == {"ok", "fail", "fail_partial"}

\* The selectors given to the pipeline runs: every valid choice among the
\* shards, a reversed pair, and the three kinds of invalid invocation.
PipelineArgvs ==
  {<<n>> : n \in Shards}
  \cup {<<lo, hi>> \in Shards \X Shards : lo # hi}
  \cup {<<NUM_FILES>>, <<0, 0 - 1>>, <<0, 0, 0>>}

\* Mutation of ReadLedger: the keys are read instead of the values.
ReadLedger_Keys(d) == {m.key : m \in d.metadata}

\* SELECT value FROM metadata WHERE key LIKE 'processed_file_%'.
ReadLedger(d) == {m.value : m \in d.metadata}

\* main up to the for loop: parse_args, makedirs, connect, CREATE TABLE IF NOT
\* EXISTS, commit, read the ledger. parser.error ends the process at once.
Main_Start(a) ==
  /\ pc = "idle"
  /\ argv' = a
  /\ IF parse_args(a).error
     THEN /\ exitCode' = Some(2)
          /\ pc' = "done"
          /\ UNCHANGED <<db, disk, file_range, idx, processed,
                         total_downloaded, outcomes>>
     ELSE /\ disk' = [disk EXCEPT !.exists = TRUE]
          /\ db' = disk'
          /\ processed' = ReadLedger(disk)
          /\ file_range' = parse_args(a).file_range
          /\ idx' = 0
          /\ total_downloaded' = 0
          /\ outcomes' = <<>>
          /\ exitCode' = Null
          /\ pc' = "loop"
  /\ startDisk' = disk
  /\ UNCHANGED <<sources, tmp, log>>

\* Mutation of TryExtract: the ledger entry is written whether or not the
\* extraction raised.
TryExtract_MarkAlways(i) ==
  LET r == extract_surface_data(sources[i], db, disk)
      marked == [r.db EXCEPT !.metadata = @ \cup {LedgerEntry(i)}]
  IN [db |-> marked, disk |-> marked,
      total_downloaded |-> total_downloaded + 1,
      outcome |-> IF r.raised THEN "extract_error" ELSE "ok"]

\* Mutation of TryExtract: the ledger entry is written with a plain REPLACE
\* of the table's content instead of INSERT OR REPLACE of one key.
TryExtract_LedgerReset(i) ==
  LET r == extract_surface_data(sources[i], db, disk)
      marked == [r.db EXCEPT !.metadata = {LedgerEntry(i)}]
  IN IF r.raised
     THEN [db |-> r.db, disk |-> r.disk, total_downloaded |-> total_downloaded,
           outcome |-> "extract_error"]
     ELSE [db |-> marked, disk |-> marked,
           total_downloaded |-> total_downloaded + 1,
           outcome |-> IF r.total = 0 THEN "report_error" ELSE "ok"]

\* Mutation of TryExtract: the completion entry is never written.
TryExtract_NeverMarks(i) ==
  LET r == extract_surface_data(sources[i], db, disk)
  IN IF r.raised
     THEN [db |-> r.db, disk |-> r.disk, total_downloaded |-> total_downloaded,
           outcome |-> "extract_error"]
     ELSE [db |-> r.db, disk |-> r.db,
           total_downloaded |-> total_downloaded + 1,
           outcome |-> IF r.total = 0 THEN "report_error" ELSE "ok"]

\* The try/except/finally of one loop iteration after a successful download
\* of shard i: the connection's view, the committed state, the counter and
\* how the iteration ended.
TryExtract(i) ==
  LET r == extract_surface_data(sources[i], db, disk)
      marked == [r.db EXCEPT !.metadata =
                   {m \in @ : m.key # LedgerEntry(i).key} \cup {LedgerEntry(i)}]
  IN IF r.raised
     THEN [db |-> r.db, disk |-> r.disk, total_downloaded |-> total_downloaded,
           outcome |-> "extract_error"]
     ELSE [db |-> marked, disk |-> marked,
           total_downloaded |-> total_downloaded + 1,
           outcome |-> IF r.total = 0 THEN "report_error" ELSE "ok"]

\* One iteration of the for loop, for shard file_range[idx + 1], with the
\* download ending as dl (read only when a download is attempted).
HandleSource(dl) ==
  /\ pc = "loop"
  /\ idx < Len(file_range)
  /\ LET i == file_range[idx + 1]
     IN IF filename(i) \in processed
        THEN /\ outcomes' = Append(outcomes, "skipped")
             /\ UNCHANGED <<db, disk, tmp, total_downloaded>>
        ELSE IF dl # "ok"
        THEN /\ outcomes' = Append(outcomes, "download_failed")
             /\ tmp' = IF dl = "fail_partial" THEN tmp \cup {i} ELSE tmp
             /\ UNCHANGED <<db, disk, total_downloaded>>
        ELSE LET r == TryExtract(i)
             IN /\ db' = r.db
                /\ disk' = r.disk
                /\ total_downloaded' = r.total_downloaded
                /\ outcomes' = Append(outcomes, r.outcome)
                /\ tmp' = tmp \ {i}
  /\ idx' = idx + 1
  /\ UNCHANGED <<sources, pc, argv, file_range, processed, exitCode,
                 startDisk, log>>

\* Mutation of Main_Finish: the index is built whether or not a source was
\* processed in this run.
Main_Finish_AlwaysBuilds ==
  /\ pc = "loop"
  /\ idx = Len(file_range)
  /\ disk' = build_rtree_index(db)
  /\ db' = disk'
  /\ exitCode' = Some(0)
  /\ pc' = "done"
  /\ UNCHANGED <<sources, tmp, argv, file_range, idx, processed,
                 total_downloaded, outcomes, startDisk, log>>

\* main after the for loop: the index build when something was processed,
\* close (which drops what was not committed), the summary, exit status 0.
Main_Finish ==
  /\ pc = "loop"
  /\ idx = Len(file_range)
  /\ disk' = IF total_downloaded > 0 THEN build_rtree_index(db) ELSE disk
  /\ db' = disk'
  /\ exitCode' = Some(0)
  /\ pc' = "done"
  /\ UNCHANGED <<sources, tmp, argv, file_range, idx, processed,
                 total_downloaded, outcomes, startDisk, log>>

\* The process is gone: its variables (and the history kept of it) with it.
\* What stays is the output database and the temporary directory.
Exit ==
  /\ pc = "done"
  /\ pc' = "idle"
  /\ argv' = <<>>
  /\ file_range' = <<>>
  /\ idx' = 0
  /\ processed' = {}
  /\ total_downloaded' = 0
  /\ exitCode' = Null
  /\ outcomes' = <<>>
  /\ startDisk' = disk
  /\ UNCHANGED <<sources, db, disk, tmp, log>>

Init ==
  /\ InitCommon
  /\ twice = Null
  /\ killed = Null
  /\ extracted = Null
  /\ sources \in [Shards -> Files]
  /\ db = NoDb
  /\ disk = NoDb

Invoke == \E a \in PipelineArgvs : Main_Start(a) /\ UNCHANGED <<twice, killed, extracted>>
Iterate == \E dl \in DownloadOutcomes : HandleSource(dl) /\ UNCHANGED <<twice, killed, extracted>>
Finish == Main_Finish /\ UNCHANGED <<twice, killed, extracted>>
Leave == Exit /\ UNCHANGED <<twice, killed, extracted>>

Next == Invoke \/ Iterate \/ Finish \/ Leave

Spec == Init /\ [][Next]_vars

---------------------------------------------------------------------------
(* Range resolver driver: parse_args on every selector list *)

Argvs == SeqsUpTo((0 - 1)..NUM_FILES, 2) \cup [1..3 -> {0, 7}]

InitArgs ==
  /\ argv \in Argvs
  /\ sources = <<>>
  /\ db = NoDb
  /\ disk = NoDb
  /\ tmp = {}
  /\ pc = "idle"
  /\ file_range = <<>>
  /\ idx = 0
  /\ processed = {}
  /\ total_downloaded = 0
  /\ exitCode = Null
  /\ outcomes = <<>>
  /\ startDisk = NoDb
  /\ log = <<>>
  /\ killed = Null
  /\ extracted = Null
  /\ twice = Null

\* parse_args alone: the resolved range, or parser.error's exit status.
ResolveRange ==
  /\ pc = "idle"
  /\ file_range' = parse_args(argv).file_range
  /\ exitCode' = IF parse_args(argv).error THEN Some(2) ELSE Null
  /\ pc' = "parsed"
  /\ UNCHANGED <<sources, db, disk, tmp, argv, idx, processed,
                 total_downloaded, outcomes, startDisk, log, twice,
                 killed, extracted>>

NextArgs == ResolveRange

SpecArgs == InitArgs /\ [][NextArgs]_vars

---------------------------------------------------------------------------
(* Repeated-run driver: the same invocation, on the same sources, MaxRuns
   times in succession. It records the shards whose download failed and
   whether one of them was downloaded after all in a later attempt, which is
   the upstream changing between the runs. *)

ValidArgvs == {a \in PipelineArgvs : ~parse_args(a).error}

InitTwice ==
  /\ InitCommon
  /\ sources \in [Shards -> Files]
  /\ db = NoDb
  /\ disk = NoDb
  /\ twice \in [argv : ValidArgvs, runs : {0}, ends : {<<>>},
                failed : {{}}, recovered : {FALSE}]
  /\ killed = Null
  /\ extracted = Null

InvokeAgain ==
  /\ twice.runs < MaxRuns
  /\ Main_Start(twice.argv)
  /\ twice' = [twice EXCEPT !.runs = @ + 1]
  /\ UNCHANGED <<killed, extracted>>

IterateAgain ==
  \E dl \in DownloadOutcomes :
    /\ HandleSource(dl)
    /\ LET i == file_range[idx + 1]
           attempted == filename(i) \notin processed
       IN twice' = [twice EXCEPT
                      !.failed = IF attempted /\ dl # "ok" THEN @ \cup {i} ELSE @,
                      !.recovered = @ \/ (attempted /\ dl = "ok" /\ i \in twice.failed)]
    /\ UNCHANGED <<killed, extracted>>

FinishRecorded ==
  /\ Main_Finish
  /\ twice' = [twice EXCEPT !.ends = Append(@, disk'.surface)]
  /\ UNCHANGED <<killed, extracted>>

NextTwice == InvokeAgain \/ IterateAgain \/ FinishRecorded \/ Leave

SpecTwice == InitTwice /\ [][NextTwice]_vars

(* Properties of the drivers: C4 for SpecTwice, C8 for SpecArgs *)

\* C4: every further run of the same invocation on the same sources ends
\* with the surface record set the first run ended with (the sources are the
\* same: no shard that could not be downloaded before is downloaded now).
C4_Idempotent ==
  ~twice.recovered
    => \A k \in 1..Len(twice.ends) : twice.ends[k] = twice.ends[1]

\* The second run ended; it extracted again a source that raises after a
\* full batch, so that batch's rows were committed a second time, over a
\* record that another source had improved since.
C4_Witness ==
  /\ pc = "done"
  /\ ~twice.recovered
  /\ Len(twice.ends) = 2
  /\ \E k \in 1..Len(outcomes) :
       /\ outcomes[k] = "extract_error"
       /\ Len(Cursor(sources[file_range[k]].rows)) > BATCH_SIZE
  /\ \E s \in disk.surface : s.pred_label = Some(1)

\* C8: no selector resolves to the shards 0..NUM_FILES-1 (40 of them), one
\* in-bounds selector n to <<n>>, an in-bounds pair lo <= hi to lo..hi in
\* ascending order, each shard once (hi - lo + 1 of them).
C8_RangeResolution ==
  pc = "parsed" =>
    /\ Len(argv) = 0
         => /\ exitCode = Null
            /\ Len(file_range) = 40
            /\ file_range = [k \in 1..NUM_FILES |-> k - 1]
    /\ (Len(argv) = 1 /\ InBounds(argv[1]))
         => exitCode = Null /\ file_range = <<argv[1]>>
    /\ (Len(argv) = 2 /\ InBounds(argv[1]) /\ InBounds(argv[2])
          /\ argv[1] <= argv[2])
         => /\ exitCode = Null
            /\ Len(file_range) = argv[2] - argv[1] + 1
            /\ file_range = [k \in 1..(argv[2] - argv[1] + 1) |-> argv[1] + k - 1]

\* (2,7) was resolved to the six shards 2..7.
C8_Witness ==
  /\ pc = "parsed"
  /\ argv = <<2, 7>>
  /\ file_range = <<2, 3, 4, 5, 6, 7>>

---------------------------------------------------------------------------
(* Kill driver: the same invocation MaxRuns times in succession, the process
   being killed at most once, while a source is being extracted. *)

\* The cursor positions at which the committed database can be caught while
\* `file` is being extracted: before the first batch commit, after each full
\* batch commit and after the commit of the final short batch.
KillPoints(file) ==
  IF discover_raises(file) THEN {0}
  ELSE {n \in 0..Len(Cursor(file.rows)) :
          n % BATCH_SIZE = 0 \/ n = Len(Cursor(file.rows))}

\* SIGKILL during extract_surface_data of shard file_range[idx + 1], the rows
\* up to cursor position n committed: the open transaction is rolled back,
\* neither the ledger INSERT nor the finally block runs, the locals are gone.
Main_Killed(n) ==
  /\ pc = "loop"
  /\ idx < Len(file_range)
  /\ filename(file_range[idx + 1]) \notin processed
  /\ n \in KillPoints(sources[file_range[idx + 1]])
  /\ LET i == file_range[idx + 1]
         r == ExtractLoop(SubSeq(Cursor(sources[i].rows), 1, n), 0, <<>>, 0,
                          db, disk, <<>>)
     IN /\ ~r.raised
        /\ disk' = r.disk
        /\ db' = r.disk
        /\ startDisk' = r.disk
        /\ tmp' = tmp \cup {i}
  /\ pc' = "idle"
  /\ argv' = <<>>
  /\ file_range' = <<>>
  /\ idx' = 0
  /\ processed' = {}
  /\ total_downloaded' = 0
  /\ exitCode' = Null
  /\ outcomes' = <<>>
  /\ UNCHANGED <<sources, log>>

InitCrash ==
  /\ InitCommon
  /\ sources \in [Shards -> Files]
  /\ db = NoDb
  /\ disk = NoDb
  /\ twice = Null
  /\ extracted = Null
  /\ killed \in [argv : ValidArgvs, runs : {0}, shard : {Null}]

InvokeCrash ==
  /\ killed.runs < MaxRuns
  /\ Main_Start(killed.argv)
  /\ killed' = [killed EXCEPT !.runs = @ + 1]
  /\ UNCHANGED <<twice, extracted>>

IterateCrash ==
  \E dl \in DownloadOutcomes :
    HandleSource(dl) /\ UNCHANGED <<twice, killed, extracted>>

Kill ==
  /\ IsNull(killed.shard)
  /\ \E n \in 0..MaxRows : Main_Killed(n)
  /\ killed' = [killed EXCEPT !.shard = Some(file_range[idx + 1])]
  /\ UNCHANGED <<twice, extracted>>

NextCrash == InvokeCrash \/ IterateCrash \/ Kill \/ Finish \/ Leave

SpecCrash == InitCrash /\ [][NextCrash]_vars

(* Properties of the kill driver, stated for SpecCrash *)

Marked(d, i) == LedgerEntry(i) \in d.metadata

Attempted(o) == o \in {"ok", "extract_error", "report_error"}

\* No row selected from shard i has the osm_id of s and a confidence proxy
\* greater than that of s: the record s owes nothing to shard i.
OwesNothingTo(s, i) ==
  \A k \in 1..Len(Cursor(sources[i].rows)) :
    LET t == Cursor(sources[i].rows)[k]
    IN t.osm_id = s.osm_id => ~SqlGreater(t.n_predictions, s.n_predictions)

\* The record s is, in all its fields, a row selected from a shard that was
\* marked complete when this run started.
FromMerged(s) ==
  \E i \in Shards :
    /\ Marked(startDisk, i)
    /\ \E k \in 1..Len(Cursor(sources[i].rows)) : Cursor(sources[i].rows)[k] = s

\* The kill leaves the shard being extracted without a completion entry.
KilledUnmarked ==
  [][(IsNull(killed.shard) /\ ~IsNull(killed'.shard))
       => ~Marked(disk', Val(killed'.shard))]_vars

\* A run that starts with the killed shard unmarked does not skip it.
KilledRetried ==
  (~IsNull(killed.shard) /\ ~Marked(startDisk, Val(killed.shard)))
    => \A k \in 1..Len(outcomes) :
         file_range[k] = Val(killed.shard) => outcomes[k] # "skipped"

\* C11: a kill during the extraction of shard k leaves k without a completion
\* entry, the next run over k attempts k again, and when a run after the kill
\* has ended, every record that was committed when it started, that is a row
\* of an already merged source and that owes nothing to the sources this run
\* extracted is still there, unchanged.
C11_CrashSafety ==
  /\ KilledUnmarked
  /\ []KilledRetried
  /\ []((pc = "done" /\ ~IsNull(killed.shard))
          => \A s \in startDisk.surface :
               (/\ FromMerged(s)
                /\ \A k \in 1..Len(outcomes) :
                     Attempted(outcomes[k]) => OwesNothingTo(s, file_range[k]))
                 => s \in disk.surface)

---------------------------------------------------------------------------
(* Retry driver: the pipeline invoked again and again, over every range, on
   an upstream whose downloads succeed in the end and whose broken shards
   are republished in the end. *)

\* TRUE when extract_surface_data raises on `file`: discover_gpkg_table
\* raises, or a selected row is one the INSERT raises on.
ExtractionRaises(file) ==
  \/ discover_raises(file)
  \/ \E k \in 1..Len(file.rows) :
       Selects(file.rows[k]) /\ Raises(Project(file.rows[k]))

RECURSIVE Insertable(_)
Insertable(rows) ==
  IF rows = <<>> THEN <<>>
  ELSE (IF Selects(Head(rows)) /\ Raises(Project(Head(rows)))
        THEN <<>> ELSE <<Head(rows)>>) \o Insertable(Tail(rows))

\* The file the upstream serves once a broken shard has been republished:
\* catalogued, and without the rows the output table rejects.
Republished(file) == Gpkg(TRUE, TRUE, Insertable(file.rows))

\* The files the retry driver starts from: the two malformed files and the
\* tables over BatchRows of up to one row more than a batch, so that a shard
\* can be empty, raise in its first batch or raise after a committed batch.
RetryFiles ==
  {f \in Files : /\ Len(f.rows) <= BATCH_SIZE + 1
                 /\ \A k \in 1..Len(f.rows) : f.rows[k] \in BatchRows}

InitRetry ==
  /\ InitCommon
  /\ sources \in [Shards -> RetryFiles]
  /\ db = NoDb
  /\ disk = NoDb
  /\ twice = Null
  /\ killed = Null
  /\ extracted = Null

\* The upstream replaces shard i, on which extraction raises.
Republish(i) ==
  /\ ExtractionRaises(sources[i])
  /\ sources' = [sources EXCEPT ![i] = Republished(sources[i])]
  /\ UNCHANGED <<db, disk, tmp, pc, argv, file_range, idx, processed,
                 total_downloaded, exitCode, outcomes, startDisk, log, twice,
                 killed, extracted>>

\* A loop iteration, as the loop counter shows it.
Iterated ==
  /\ pc = "loop"
  /\ idx < Len(file_range)
  /\ idx' = idx + 1

\* A loop iteration in which the download of shard i is attempted and
\* succeeds, as the outcomes show it: the iteration went on to the try block.
Downloaded(i) ==
  /\ pc = "loop"
  /\ idx < Len(file_range)
  /\ file_range[idx + 1] = i
  /\ filename(i) \notin processed
  /\ \E o \in {"ok", "extract_error", "report_error"} :
       outcomes' = Append(outcomes, o)

Invoked(a) == Main_Start(a) /\ UNCHANGED <<twice, killed, extracted>>

Upstream == \E i \in Shards : Republish(i)

NextRetry == Invoke \/ Iterate \/ Finish \/ Leave \/ Upstream

\* The process, once started, runs on to its end; every range is invoked
\* again and again; a download attempted again and again succeeds in the
\* end; a broken shard is republished in the end.
FairRetry ==
  /\ WF_idx(Iterated) /\ WF_vars(Finish) /\ WF_vars(Leave)
  /\ \A a \in ValidArgvs : SF_vars(Invoked(a))
  /\ \A i \in Shards : SF_outcomes(Downloaded(i))
  /\ \A i \in Shards : WF_vars(Republish(i))

SpecRetry == InitRetry /\ [][NextRetry]_vars /\ FairRetry

---------------------------------------------------------------------------
(* Extractor driver: extract_surface_data on one file, statement by
   statement, into a database that holds the two empty tables. *)

\* The files extracted: every table of up to MaxRows + 1 rows (two full
\* batches at least) over all FeatureRows, and the two malformed files.
ExtractFiles ==
  {Gpkg(TRUE, TRUE, rows) : rows \in SeqsUpTo(FeatureRows, MaxRows + 1)}
  \cup {Gpkg(FALSE, FALSE, <<>>), Gpkg(TRUE, FALSE, <<>>)}

InitExtract ==
  /\ InitCommon
  /\ sources \in [{0} -> ExtractFiles]
  /\ db = EmptyDb
  /\ disk = EmptyDb
  /\ twice = Null
  /\ killed = Null
  /\ extracted = [at |-> "start", pos |-> 0, batch |-> <<>>, ml_count |-> 0,
                  total |-> 0, passed |-> <<>>]

\* discover_gpkg_table, the SELECT and the COUNT(*).
Discover ==
  /\ extracted.at = "start"
  /\ extracted' =
       IF discover_raises(sources[0])
       THEN [extracted EXCEPT !.at = "raised"]
       ELSE [extracted EXCEPT !.at = "loop", !.total = Len(sources[0].rows)]
  /\ UNCHANGED <<sources, db, disk, tmp, pc, argv, file_range, idx, processed,
                 total_downloaded, exitCode, outcomes, startDisk, log, twice,
                 killed>>

\* Mutation of FetchMany: the buffer is flushed only once it holds more than
\* a batch.
FetchMany_FlushLate ==
  /\ extracted.at = "loop"
  /\ LET cur == Cursor(sources[0].rows)
         rows == SubSeq(cur, extracted.pos + 1,
                        Min(extracted.pos + BATCH_SIZE, Len(cur)))
         batch2 == extracted.batch \o rows
         r == insert_batch(db, disk, batch2)
     IN IF rows = <<>>
        THEN /\ extracted' = [extracted EXCEPT !.at = "flush"]
             /\ UNCHANGED <<db, disk>>
        ELSE IF Len(batch2) > BATCH_SIZE
        THEN /\ db' = r.db
             /\ disk' = r.disk
             /\ extracted' =
                  [extracted EXCEPT
                     !.at = IF r.raised THEN "raised" ELSE "loop",
                     !.pos = @ + Len(rows),
                     !.ml_count = @ + Len(rows),
                     !.batch = IF r.raised THEN batch2 ELSE <<>>,
                     !.passed = Append(@, batch2)]
        ELSE /\ extracted' = [extracted EXCEPT !.pos = @ + Len(rows),
                                               !.ml_count = @ + Len(rows),
                                               !.batch = batch2]
             /\ UNCHANGED <<db, disk>>
  /\ UNCHANGED <<sources, tmp, pc, argv, file_range, idx, processed,
                 total_downloaded, exitCode, outcomes, startDisk, log, twice,
                 killed>>

\* One pass of the while loop: fetchmany, break on no rows, extend, count,
\* and _insert_batch and clear once the buffer holds a batch.
FetchMany ==
  /\ extracted.at = "loop"
  /\ LET cur == Cursor(sources[0].rows)
         rows == SubSeq(cur, extracted.pos + 1,
                        Min(extracted.pos + BATCH_SIZE, Len(cur)))
         batch2 == extracted.batch \o rows
         r == insert_batch(db, disk, batch2)
     IN IF rows = <<>>
        THEN /\ extracted' = [extracted EXCEPT !.at = "flush"]
             /\ UNCHANGED <<db, disk>>
        ELSE IF Len(batch2) >= BATCH_SIZE
        THEN /\ db' = r.db
             /\ disk' = r.disk
             /\ extracted' =
                  [extracted EXCEPT
                     !.at = IF r.raised THEN "raised" ELSE "loop",
                     !.pos = @ + Len(rows),
                     !.ml_count = @ + Len(rows),
                     !.batch = IF r.raised THEN batch2 ELSE <<>>,
                     !.passed = Append(@, batch2)]
        ELSE /\ extracted' = [extracted EXCEPT !.pos = @ + Len(rows),
                                               !.ml_count = @ + Len(rows),
                                               !.batch = batch2]
             /\ UNCHANGED <<db, disk>>
  /\ UNCHANGED <<sources, tmp, pc, argv, file_range, idx, processed,
                 total_downloaded, exitCode, outcomes, startDisk, log, twice,
                 killed>>

\* After the loop: `if batch: _insert_batch(out_conn, batch)` (the list is
\* not cleared afterwards), close, return.
FinalFlush ==
  /\ extracted.at = "flush"
  /\ LET r == insert_batch(db, disk, extracted.batch)
     IN IF extracted.batch # <<>>
        THEN /\ db' = r.db
             /\ disk' = r.disk
             /\ extracted' =
                  [extracted EXCEPT
                     !.at = IF r.raised THEN "raised" ELSE "returned",
                     !.passed = Append(@, extracted.batch)]
        ELSE /\ extracted' = [extracted EXCEPT !.at = "returned"]
             /\ UNCHANGED <<db, disk>>
  /\ UNCHANGED <<sources, tmp, pc, argv, file_range, idx, processed,
                 total_downloaded, exitCode, outcomes, startDisk, log, twice,
                 killed>>

NextExtract == Discover \/ FetchMany \/ FinalFlush

SpecExtract == InitExtract /\ [][NextExtract]_vars

(* Properties of the extractor, stated for SpecExtract *)

RECURSIVE Flatten(_)
Flatten(ss) == IF ss = <<>> THEN <<>> ELSE Head(ss) \o Flatten(Tail(ss))

\* What the function called by the pipeline computes for the same file.
AsCalled == extract_surface_data(sources[0], EmptyDb, EmptyDb)

StreamingInvariant ==
  LET cur == Cursor(sources[0].rows)
  IN /\ Len(extracted.batch) <= BATCH_SIZE
     /\ extracted.pos <= Len(cur)
     /\ \A j \in 1..Len(extracted.passed) :
          /\ extracted.passed[j] # <<>>
          /\ Len(extracted.passed[j]) <= BATCH_SIZE
     /\ extracted.at \in {"loop", "flush"}
          => /\ Flatten(extracted.passed) \o extracted.batch
                  = SubSeq(cur, 1, extracted.pos)
             /\ extracted.ml_count = extracted.pos
     /\ extracted.at = "raised"
          => /\ Flatten(extracted.passed) = SubSeq(cur, 1, extracted.pos)
             /\ AsCalled.raised
             /\ AsCalled.passed = extracted.passed
             /\ AsCalled.db = db /\ AsCalled.disk = disk
     /\ extracted.at = "returned"
          => /\ Flatten(extracted.passed) = cur
             /\ extracted.ml_count = Len(Flatten(extracted.passed))
             /\ extracted.total = Len(sources[0].rows)
             /\ \/ extracted.batch = <<>>
                \/ extracted.batch = extracted.passed[Len(extracted.passed)]
             /\ ~AsCalled.raised
             /\ AsCalled.passed = extracted.passed
             /\ AsCalled.ml_count = extracted.ml_count
             /\ AsCalled.total = extracted.total
             /\ AsCalled.db = db /\ AsCalled.disk = disk

---------------------------------------------------------------------------
(* Properties of the pipeline, stated for Spec *)

\* C5: an iteration for a shard whose completion entry was in the ledger when
\* the run started ends as skipped (no download, no extraction) and leaves
\* the connection's view, the committed database and the temporary files
\* exactly as they were.
C5_ResumeSkips ==
  [][(/\ pc = "loop"
      /\ idx' = idx + 1
      /\ Marked(startDisk, file_range[idx + 1]))
     => (/\ outcomes'[idx'] = "skipped"
         /\ db' = db
         /\ disk' = disk
         /\ tmp' = tmp)]_vars

\* A marked shard that had contributed records was just skipped.
C5_Witness ==
  /\ pc = "loop"
  /\ idx >= 1
  /\ outcomes[idx] = "skipped"
  /\ Cursor(sources[file_range[idx]].rows) # <<>>
  /\ disk.surface # {}

Failed(o) == o \in {"download_failed", "extract_error"}

\* C6: a source whose download failed or whose extraction raised (malformed
\* file included) has no completion entry during this run; the loop counts
\* one outcome per iteration, and a run that entered the loop ends with
\* status 0 having handled every source of the range, each one not marked at
\* the start having been attempted.
C6_FailureIsolation ==
  /\ \A k \in 1..Len(outcomes) :
       Failed(outcomes[k])
         => ~Marked(db, file_range[k]) /\ ~Marked(disk, file_range[k])
  /\ pc = "loop" => Len(outcomes) = idx /\ idx <= Len(file_range)
  /\ (pc = "done" /\ exitCode # Some(2))
       => /\ exitCode = Some(0)
          /\ Len(outcomes) = Len(file_range)
          /\ \A k \in 1..Len(file_range) :
               outcomes[k] = "skipped" <=> Marked(startDisk, file_range[k])

\* A run over both shards ended: the first source was malformed, the second
\* was extracted and marked.
C6_Witness ==
  /\ pc = "done"
  /\ Len(outcomes) = 2
  /\ outcomes[1] = "extract_error"
  /\ discover_raises(sources[file_range[1]])
  /\ outcomes[2] = "ok"
  /\ Marked(disk, file_range[2])

InvalidSelectors(a) ==
  \/ Len(a) > 2
  \/ \E k \in 1..Len(a) : ~InBounds(a[k])
  \/ Len(a) = 2 /\ a[1] > a[2]

\* C7: an invocation with a reversed pair, an out-of-bounds selector or more
\* than two selectors ends at once with a non-zero status, the output
\* database and the temporary files untouched.
C7_InvalidRejected ==
  [][(pc = "idle" /\ pc' # "idle" /\ InvalidSelectors(argv'))
     => (/\ pc' = "done"
         /\ exitCode' \notin {Null, Some(0)}
         /\ disk' = disk
         /\ db' = db
         /\ tmp' = tmp)]_vars

Midpoint(lo, hi) == (lo + hi) \div 2

\* A classified row of some shard that the stored record s can come from.
FromClassifiedRow(s) ==
  \E i \in Shards : \E k \in 1..Len(sources[i].rows) :
    LET f == sources[i].rows[k]
    IN /\ ~IsNull(f.pred_class)
       /\ ~IsNull(f.box)
       /\ f.osm_id = s.osm_id
       /\ f.pred_label = s.pred_label
       /\ s.centroid_lat = Some(Midpoint(Val(f.box).miny, Val(f.box).maxy))
       /\ s.centroid_lng = Some(Midpoint(Val(f.box).minx, Val(f.box).maxx))

\* C9: no record comes from a row with a NULL pred_class, and every row with
\* a non-NULL pred_class of a source marked complete has exactly one record
\* under its osm_id.
C9_Filtering ==
  /\ \A s \in disk.surface : FromClassifiedRow(s)
  /\ \A i \in Shards :
       Marked(disk, i)
         => \A k \in 1..Len(sources[i].rows) :
              ~IsNull(sources[i].rows[k].pred_class)
                => Cardinality({s \in disk.surface :
                                  s.osm_id = sources[i].rows[k].osm_id}) = 1

\* C10: once the loop is past an iteration that attempted a download, that
\* shard's temporary file does not exist.
C10_TempReleased ==
  \A k \in 1..Len(outcomes) :
    outcomes[k] # "skipped" => file_range[k] \notin tmp

\* The batches extract_surface_data hands to _insert_batch for shard i.
BatchesOf(i) == extract_surface_data(sources[i], EmptyDb, EmptyDb).passed

\* executemany runs the whole batch: no row of it raises.
AppliesWhole(batch) == \A k \in 1..Len(batch) : ~Raises(batch[k])

\* The record s carries the prediction and the centroid of the row t.
Reflects(s, t) ==
  /\ s.osm_id = t.osm_id
  /\ s.pred_label = t.pred_label
  /\ s.centroid_lat = t.centroid_lat
  /\ s.centroid_lng = t.centroid_lng

\* C12: every committed record reflects a row of a batch that was applied
\* whole; no committed state reflects a row of a batch of which another row
\* was never applied.
C12_BatchAtomicity ==
  \A s \in disk.surface :
    \E i \in Shards : \E j \in 1..Len(BatchesOf(i)) :
      /\ AppliesWhole(BatchesOf(i)[j])
      /\ \E k \in 1..Len(BatchesOf(i)[j]) : Reflects(s, BatchesOf(i)[j][k])

\* The index entry with the degenerate box at the record's centroid.
PointEntry(s) ==
  [id |-> s.osm_id,
   min_lng |-> Val(s.centroid_lng), max_lng |-> Val(s.centroid_lng),
   min_lat |-> Val(s.centroid_lat), max_lat |-> Val(s.centroid_lat)]

HasCoordinates(s) == ~IsNull(s.centroid_lat) /\ ~IsNull(s.centroid_lng)

\* C13: right after build_rtree_index, surface_rtree holds, for every record
\* with both coordinates, one entry under the record's rowid whose box is the
\* record's centroid (min = max = centroid), and nothing else.
C13_IndexSound ==
  (pc = "done" /\ total_downloaded > 0)
    => disk.rtree = Some({PointEntry(s) : s \in {x \in disk.surface : HasCoordinates(x)}})

\* The stored confidence proxy a is at least the row's proxy b (a row without
\* a proxy asks for nothing).
AtLeast(a, b) == IsNull(b) \/ (~IsNull(a) /\ Val(a) >= Val(b))

\* C14: in every committed state, a shard with a completion entry has all its
\* batches committed: every row selected from it has a record under its
\* osm_id whose confidence proxy is at least the row's.
C14_LedgerImpliesMerged ==
  \A i \in Shards :
    Marked(disk, i)
      => \A k \in 1..Len(Cursor(sources[i].rows)) :
           \E s \in disk.surface :
             /\ s.osm_id = Cursor(sources[i].rows)[k].osm_id
             /\ AtLeast(s.n_predictions, Cursor(sources[i].rows)[k].n_predictions)

\* C15: no step removes a completion entry or changes its value (neither
\* from the committed database nor from the connection's view), and a step
\* adds an entry only for the shard the loop is at, under the key
\* processed_file_k with the shard's file name as value, that shard being in
\* the requested range and not marked when the run started.
C15_LedgerMonotone ==
  [][/\ disk.metadata \subseteq disk'.metadata
     /\ db.metadata \subseteq db'.metadata
     /\ \A m \in disk'.metadata \ disk.metadata :
          /\ pc = "loop"
          /\ idx < Len(file_range)
          /\ m = LedgerEntry(file_range[idx + 1])
          /\ m.key = <<"processed_file", file_range[idx + 1]>>
          /\ m.value = filename(file_range[idx + 1])
          /\ ~Marked(startDisk, file_range[idx + 1])]_vars

\* A later run has just marked a second shard; the entry an earlier run wrote
\* for the first one is still there.
C15_Witness ==
  /\ pc = "loop"
  /\ idx >= 1
  /\ Marked(disk, file_range[idx])
  /\ ~Marked(startDisk, file_range[idx])
  /\ \E i \in Shards : i # file_range[idx] /\ Marked(startDisk, i) /\ Marked(disk, i)

NewlyMarked == {i \in Shards : Marked(disk, i) /\ ~Marked(startDisk, i)}

\* C16: no loop iteration touches surface_rtree; the step that ends the run,
\* taken when every source of the range has been handled, rebuilds it from
\* the surface table if a source was newly marked in this run, and otherwise
\* leaves the table as it was (missing if it was missing).
C16_RebuildTrigger ==
  [][/\ (pc = "loop" /\ pc' = "loop")
          => db'.rtree = db.rtree /\ disk'.rtree = disk.rtree
     /\ (pc = "loop" /\ pc' = "done")
          => /\ idx = Len(file_range)
             /\ Len(outcomes) = Len(file_range)
             /\ NewlyMarked # {} => disk'.rtree = build_rtree_index(db).rtree
             /\ NewlyMarked = {} => disk'.rtree = disk.rtree
     /\ (pc # "loop") => disk'.rtree = disk.rtree]_vars

\* A run that marked nothing new has ended on a database whose records
\* changed since the index was built: the index was left as it was.
C16_Witness ==
  /\ pc = "done"
  /\ exitCode = Some(0)
  /\ NewlyMarked = {}
  /\ ~IsNull(disk.rtree)
  /\ disk.rtree # build_rtree_index(disk).rtree
  /\ disk.rtree = startDisk.rtree

AllMarked(d) == \A i \in Shards : Marked(d, i)

\* C17: under the retry driver's fairness every shard is marked complete in
\* the end and stays so; a shard whose download failed or whose extraction
\* raised is unmarked, and a run that starts with every shard marked skips
\* every source and leaves the database as it was.
C17_RetryLiveness ==
  /\ <>[]AllMarked(disk)
  /\ [](\A k \in 1..Len(outcomes) :
          Failed(outcomes[k]) => ~Marked(disk, file_range[k]))
  /\ []((pc \in {"loop", "done"} /\ exitCode # Some(2) /\ AllMarked(startDisk))
          => /\ \A k \in 1..Len(outcomes) : outcomes[k] = "skipped"
             /\ disk = startDisk
             /\ total_downloaded = 0)

\* A run has ended with every shard marked: it extracted and marked a shard
\* that earlier runs, which had committed records, had left unmarked.
C17_Witness ==
  /\ pc = "done"
  /\ AllMarked(disk)
  /\ \E k \in 1..Len(outcomes) :
       /\ outcomes[k] = "ok"
       /\ ~Marked(startDisk, file_range[k])
       /\ startDisk.surface # {}
       /\ sources[file_range[k]].rows # <<>>

\* C19: when a run has ended (status 0), surface_rtree exists and its entries
\* are those of the committed records that have both coordinates.
C19_IndexFresh ==
  (pc = "done" /\ exitCode = Some(0))
    => /\ ~IsNull(disk.rtree)
       /\ {e.id : e \in Val(disk.rtree)}
            = {s.osm_id : s \in {x \in disk.surface : HasCoordinates(x)}}

\* The iteration printed "ERROR extracting".
ReportedError(o) == o \in {"extract_error", "report_error"}

\* The sources this run has counted in "Files processed this run" are those
\* whose iteration went through the try block without an error report.
CountedAsReported ==
  total_downloaded
    = Cardinality({k \in 1..Len(outcomes) :
                     Attempted(outcomes[k]) /\ ~ReportedError(outcomes[k])})

\* C20: for every source of this run that was downloaded (a shard with an
\* empty feature table included), an extraction error was reported if and
\* only if the source has no completion entry, and the counter of processed
\* files counts exactly the sources without an error report.
C20_ReportAgreesWithLedger ==
  /\ \A k \in 1..Len(outcomes) :
       Attempted(outcomes[k])
         => (ReportedError(outcomes[k]) <=> ~Marked(disk, file_range[k]))
  /\ CountedAsReported

====
